---- MODULE Spec2Model ----
(***************************************************************************)
(* Opinion / tie-strength co-evolution on a graph, as implemented by the   *)
(* two simulation classes of Network_Project.ipynb:                        *)
(*   SocialDynamicsSimulation      (scalar opinions,  variant = "scalar")  *)
(*   NetworkSimulationExtension    (opinion vectors,  variant = "vector")  *)
(*                                                                         *)
(* Python floats are modelled as exact rationals <<n, d>> in lowest terms  *)
(* (d > 0), so every property below is a property of the update rule in    *)
(* real arithmetic; binary rounding is not modelled.                       *)
(***************************************************************************)
EXTENDS Integers, Sequences, FiniteSets, TLC

\* ------------------------------------------------------------------ bounds
NumNodes == 3        \* nodes of the graph (the notebook uses 50)
MaxStep == 2         \* update() calls explored per run
MaxDen == 40         \* an interaction is explored only while the operands'
                     \* denominators are at most MaxDen (32-bit integers)

\* ------------------------------------------------------ rational arithmetic
RECURSIVE GCD(_, _)
GCD(a, b) == IF b = 0 THEN a ELSE GCD(b, a % b)

AbsInt(n) == IF n < 0 THEN -n ELSE n

Rat(n, d) ==
    LET s == IF d < 0 THEN -1 ELSE 1
        g == GCD(AbsInt(n), AbsInt(d))
    IN  <<(s * n) \div g, (s * d) \div g>>

Num(x) == x[1]
Den(x) == x[2]

Zero == <<0, 1>>
One == <<1, 1>>

Neg(x) == <<-Num(x), Den(x)>>

Add(x, y) ==
    LET g == GCD(Den(x), Den(y))
        l == (Den(x) \div g) * Den(y)
    IN  Rat(Num(x) * (l \div Den(x)) + Num(y) * (l \div Den(y)), l)

Sub(x, y) == Add(x, Neg(y))

Mul(x, y) ==
    LET g1 == GCD(AbsInt(Num(x)), Den(y))
        g2 == GCD(AbsInt(Num(y)), Den(x))
    IN  <<(Num(x) \div g1) * (Num(y) \div g2), (Den(x) \div g2) * (Den(y) \div g1)>>

Abs(x) == <<AbsInt(Num(x)), Den(x)>>

Less(x, y) == Num(x) * Den(y) < Num(y) * Den(x)

Leq(x, y) == ~Less(y, x)

\* numpy.maximum / numpy.minimum on one component
Maximum(x, y) == IF Less(x, y) THEN y ELSE x
Minimum(x, y) == IF Less(y, x) THEN y ELSE x

\* numpy.clip(x, lo, hi)
Clip(x, lo, hi) == Minimum(Maximum(x, lo), hi)

InUnit(x) == Leq(Zero, x) /\ Leq(x, One)

\* ------------------------------------------------------------------- state
VARIABLES
    variant,    \* which class the simulation object is: "scalar" | "vector"
    alpha,      \* self.alpha
    beta,       \* self.beta
    gamma,      \* self.gamma
    delta,      \* self.delta (vector variant; NoDelta models None)
    weight,     \* self.graph adjacency: weight[u, v] is the 'weight' attribute
                \* of edge (u, v), NoEdge when v is not a neighbour of u
    opinion,    \* self.graph.nodes[n]['opinion']   (scalar variant)
    opinions,   \* self.graph.nodes[n]['opinions']  (vector variant)
    step,       \* self.step
    pc,         \* position of update(): "idle" between calls, "sampling"
                \* inside the rejection loop of the new-edge branch
    attempt,    \* iterations of `for _ in range(50)` completed so far
    edge,       \* the two endpoints of the edge the last call selected or
                \* added, as a set ({} if it selected none)
    outcome     \* what the last call did: "none" | "kept" | "pruned" |
                \* "added" | "gaveup" | "raised"

vars == <<variant, alpha, beta, gamma, delta, weight, opinion, opinions,
          step, pc, attempt, edge, outcome>>

config == <<variant, alpha, beta, gamma, delta>>

Nodes == 0 .. (NumNodes - 1)

\* random.sample(nodes, 2): two distinct nodes, in either order
Sample2 == {e \in Nodes \X Nodes : e[1] # e[2]}

NoEdge == <<>>
NoDelta == <<>>

\* `e in self.graph.edges` (EdgeView.__contains__: v in adj[u])
Contains(wt, e) == wt[e[1], e[2]] # NoEdge

\* the membership test of the new-edge branch inverted
UnconnectedInverted(wt, e) == Contains(wt, e)

\* the membership test of the new-edge branch dropped
UnconnectedMutant(wt, e) == TRUE

\* `new_edge not in self.graph.edges`
Unconnected(wt, e) == ~Contains(wt, e)

\* the emptiness of the edge list not looked at
NoEdgesMutant(wt) == TRUE

\* list(self.graph.edges) is empty
NoEdges(wt) == \A e \in Nodes \X Nodes : ~Contains(wt, e)

\* every pair of distinct nodes is connected
Complete(wt) == \A e \in Sample2 : Contains(wt, e)

\* Graph.add_edge(u, v, weight=w): the attribute dict is shared by adj[u][v]
\* and adj[v][u]
AddEdge(wt, e, w) == [wt EXCEPT ![e[1], e[2]] = w, ![e[2], e[1]] = w]

\* self.graph.edges[edge]['weight'] = w
SetWeight(wt, e, w) == [wt EXCEPT ![e[1], e[2]] = w, ![e[2], e[1]] = w]

\* the removal left out
RemoveEdgeSkipped(wt, e) == wt

\* remove_edge taking the first endpoint's other edges with it
RemoveEdgeMutant(wt, e) ==
    [p \in Nodes \X Nodes |-> IF e[1] \in {p[1], p[2]} THEN NoEdge ELSE wt[p]]

\* Graph.remove_edge(u, v)
RemoveEdge(wt, e) == [wt EXCEPT ![e[1], e[2]] = NoEdge, ![e[2], e[1]] = NoEdge]

\* the increment left out
IncrementMutant(s) == s

\* self.step += 1
Increment(s) == s + 1

\* weight-removal threshold 0.05 and the weight of a new scalar edge 0.5
Threshold == Rat(1, 20)
Half == Rat(1, 2)

\* the pruning test turned round: `>` for `<`
WeakAbove(w) == Less(Threshold, w)

\* the `<` of the pruning test written as `<=`
WeakMutant(w) == Leq(w, Threshold)

\* `if self.graph.edges[edge]['weight'] < 0.05`
Weak(w) == Less(w, Threshold)

\* the graphs initialize() is started from here: a single tie between nodes
\* 0 and 1, and the complete graph (the generators themselves are library
\* code; any simple graph over Nodes is a possible start)
OnePair == {<<0, 1>>, <<1, 0>>}
AllPairs == Sample2
InitTopologies == {OnePair, AllPairs}


\* the coefficient sets explored (alpha in (0, 0.5], beta in (0,1), gamma > 0)
Coefficients == {[a |-> Rat(1, 2), b |-> Rat(3, 5), g |-> Rat(4, 1)]}

\* the scalar variant is also explored with gamma <= 1, where by the notebook
\* text differing opinions never decrease a weight
ScalarCoefficients ==
    Coefficients \cup {[a |-> Rat(1, 2), b |-> Rat(3, 5), g |-> Rat(1, 1)],
                       [a |-> Rat(1, 4), b |-> Rat(1, 2), g |-> Rat(1, 2)]}

\* ----------------------------------------------- SocialDynamicsSimulation
\* initialize(): every edge weight 0.5, every opinion random.randint(0, 1)
ScalarInit ==
    /\ variant = "scalar"
    /\ \E c \in ScalarCoefficients : alpha = c.a /\ beta = c.b /\ gamma = c.g
    /\ delta = NoDelta
    /\ \E E \in InitTopologies :
          weight = [e \in Nodes \X Nodes |-> IF e \in E THEN Half ELSE NoEdge]
    /\ opinion \in [Nodes -> {Zero, One}]
    /\ opinions = [n \in Nodes |-> <<>>]
    /\ step = 0
    /\ pc = "idle"
    /\ attempt = 0
    /\ edge = {}
    /\ outcome = "none"

\* the difference taken the other way round: own - other
ScalarNewOpinionAway(own, other, w) == Add(own, Mul(Mul(alpha, w), Sub(own, other)))

\* opinions[i] + self.alpha * weight * (opinions[1-i] - opinions[i])
ScalarNewOpinion(own, other, w) == Add(own, Mul(Mul(alpha, w), Sub(other, own)))

\* the second node write reading the first node's new opinion
ScalarOpinionLoopLive(op, e, w) ==
    LET op1 == [op EXCEPT ![e[1]] = ScalarNewOpinion(op[e[1]], op[e[2]], w)]
    IN  [op1 EXCEPT ![e[2]] = ScalarNewOpinion(op1[e[2]], op1[e[1]], w)]

\* the loop `for i in [0, 1]` over the snapshot list `opinions`
ScalarOpinionLoop(op, e, w) ==
    LET snap == <<op[e[1]], op[e[2]]>>
        op1 == [op EXCEPT ![e[1]] = ScalarNewOpinion(snap[1], snap[2], w)]
    IN  [op1 EXCEPT ![e[2]] = ScalarNewOpinion(snap[2], snap[1], w)]

\* the weight change subtracted instead of added
ScalarNewWeightDecay(w, o0, o1) ==
    Sub(w, Mul(Mul(Mul(beta, w), Sub(One, w)),
               Sub(One, Mul(gamma, Abs(Sub(o0, o1))))))

\* abs() dropped from the weight rule
ScalarNewWeightMutant(w, o0, o1) ==
    Add(w, Mul(Mul(Mul(beta, w), Sub(One, w)),
               Sub(One, Mul(gamma, Sub(o0, o1)))))

\* weight + self.beta * weight * (1-weight) * (1 - self.gamma * abs(o0 - o1))
ScalarNewWeight(w, o0, o1) ==
    Add(w, Mul(Mul(Mul(beta, w), Sub(One, w)),
               Sub(One, Mul(gamma, Abs(Sub(o0, o1))))))

\* the bound MaxDen on an operand of an interaction
Fits(x) == Den(x) <= MaxDen

\* else-branch of update(): one interaction on a sampled edge
ScalarInteract ==
    /\ variant = "scalar" /\ pc = "idle" /\ step < MaxStep
    /\ \E e \in Sample2 :
          /\ Contains(weight, e)
          /\ Fits(weight[e]) /\ Fits(opinion[e[1]]) /\ Fits(opinion[e[2]])
          /\ LET w == weight[e]
                 written == ScalarNewWeight(w, opinion[e[1]], opinion[e[2]])
             IN  /\ opinion' = ScalarOpinionLoop(opinion, e, w)
                 /\ weight' = IF Weak(written)
                                 THEN RemoveEdge(SetWeight(weight, e, written), e)
                                 ELSE SetWeight(weight, e, written)
                 /\ outcome' = IF Weak(written) THEN "pruned" ELSE "kept"
                 /\ edge' = {e[1], e[2]}
    /\ step' = Increment(step)
    /\ UNCHANGED <<config, opinions, pc, attempt>>

\* else-branch of update() with no edge: random.choice([]) raises IndexError
\* before anything is written
ScalarInteractEmpty ==
    /\ variant = "scalar" /\ pc = "idle"
    /\ NoEdges(weight)
    /\ outcome' = "raised"
    /\ edge' = {}
    /\ UNCHANGED <<config, weight, opinion, opinions, step, pc, attempt>>

\* one iteration of `while True` that samples an unconnected pair: break,
\* add_edge(new_edge[0], new_edge[1], weight=0.5), self.step += 1
ScalarNewEdgeAccept ==
    /\ variant = "scalar" /\ pc \in {"idle", "sampling"} /\ step < MaxStep
    /\ \E e \in Sample2 :
          /\ Unconnected(weight, e)
          /\ weight' = AddEdge(weight, e, Half)
          /\ edge' = {e[1], e[2]}
    /\ outcome' = "added"
    /\ pc' = "idle"
    /\ step' = Increment(step)
    /\ UNCHANGED <<config, opinion, opinions, attempt>>

\* one iteration of `while True` that samples a connected pair: loop again
ScalarNewEdgeReject ==
    /\ variant = "scalar" /\ pc \in {"idle", "sampling"} /\ step < MaxStep
    /\ \E e \in Sample2 : ~Unconnected(weight, e)
    /\ pc' = "sampling"
    /\ UNCHANGED <<config, weight, opinion, opinions, step, attempt, edge, outcome>>

\* --------------------------------------------- NetworkSimulationExtension
n_topics == 2
Topics == 1 .. n_topics

\* `for _ in range(50)`
MaxAttempts == 50

\* values scipy.random.normal(.5, .2) may return (it is not truncated)
NormalDraws == {Rat(1, 2), Rat(6, 5)}

\* the draws explored for the initial weights (one draw for all edges)
InitDraws == {Rat(-1, 10), Rat(1, 2)}

\* the initial opinion draws explored in the vector variant: even nodes draw
\* 0 in every topic, odd nodes share one draw (the update rule is symmetric
\* under o -> 1 - o and under a permutation of the topics)
IsOdd(n) == n % 2 = 1

\* the values of delta explored: None and 3
Deltas == {NoDelta, Rat(3, 1)}

\* initialize(): every edge weight drawn from normal(.5, .2), every opinion
\* component rd.choice([0.0, 1.0])
VectorInit ==
    /\ variant = "vector"
    /\ \E c \in Coefficients : alpha = c.a /\ beta = c.b /\ gamma = c.g
    /\ delta \in Deltas
    /\ \E E \in InitTopologies :
          \E w \in InitDraws :
             weight = [e \in Nodes \X Nodes |-> IF e \in E THEN w ELSE NoEdge]
    /\ \E k \in 0 .. n_topics :
          LET o == [t \in Topics |-> IF t <= k THEN One ELSE Zero] IN
          opinions = [n \in Nodes |-> IF IsOdd(n) THEN o ELSE [t \in Topics |-> Zero]]
    /\ opinion = [n \in Nodes |-> Zero]
    /\ step = 0
    /\ pc = "idle"
    /\ attempt = 0
    /\ edge = {}
    /\ outcome = "none"

\* elementwise numpy operations on opinion arrays
VAdd(a, b) == [t \in Topics |-> Add(a[t], b[t])]
VSub(a, b) == [t \in Topics |-> Sub(a[t], b[t])]
VMul(a, b) == [t \in Topics |-> Mul(a[t], b[t])]
VScale(k, a) == [t \in Topics |-> Mul(k, a[t])]
VAbs(a) == [t \in Topics |-> Abs(a[t])]
VClip(a) == [t \in Topics |-> Clip(a[t], Zero, One)]

RECURSIVE SumTo(_, _)
SumTo(a, t) == IF t = 0 THEN Zero ELSE Add(SumTo(a, t - 1), a[t])

\* np.mean(a)
Mean(a) == Mul(SumTo(a, n_topics), Rat(1, n_topics))

\* the 0.05 of np.maximum(0.05, ...)
FlexFloor == Rat(1, 20)

\* the floor np.maximum(0.05, .) left out
FlexibilityNoFloor(o) ==
    IF delta = NoDelta
        THEN [t \in Topics |-> One]
        ELSE [t \in Topics |-> Mul(delta, Minimum(o[t], Abs(Sub(o[t], One))))]

\* 1 if not self.delta else self.delta * np.maximum(0.05, np.minimum(o, |o - 1|))
Flexibility(o) ==
    IF delta = NoDelta
        THEN [t \in Topics |-> One]
        ELSE [t \in Topics |->
                 Mul(delta, Maximum(FlexFloor, Minimum(o[t], Abs(Sub(o[t], One)))))]

\* delta_o = self.alpha * wght * (o_b - o_a)
DeltaO(w, oa, ob) == VScale(Mul(alpha, w), VSub(ob, oa))

\* nodes[edge[0]]['opinions'] += delta_o * flexibility(nodes[edge[0]]['opinions'])
UpdatedA(w, oa, ob) == VAdd(oa, VMul(DeltaO(w, oa, ob), Flexibility(oa)))

\* nodes[edge[1]]['opinions'] -= delta_o * flexibility(nodes[edge[1]]['opinions'])
UpdatedB(w, oa, ob) == VSub(ob, VMul(DeltaO(w, oa, ob), Flexibility(ob)))

\* self.beta * wght * (1-wght) * (1 - self.gamma * np.mean(np.absolute(x - y)))
DeltaW(w, x, y) ==
    Mul(Mul(Mul(beta, w), Sub(One, w)),
        Sub(One, Mul(gamma, Mean(VAbs(VSub(x, y))))))

\* The arrays o_a, o_b as line 367 reads them.  o_a and o_b are bound to the
\* node's own numpy arrays and `+=` / `-=` update those arrays in place, so
\* by the time delta_w is computed o_a and o_b hold the updated opinions.
ArraysAtDeltaW(w, oa, ob) == <<UpdatedA(w, oa, ob), UpdatedB(w, oa, ob)>>

\* the weight after `self.graph.edges[edge]['weight'] += delta_w`
VectorNewWeight(w, oa, ob) ==
    LET at == ArraysAtDeltaW(w, oa, ob)
    IN  Add(w, DeltaW(w, at[1], at[2]))

\* `if self.delta:` clip opinions and weight into [0, 1]
ClipOpinions(o) == IF delta = NoDelta THEN o ELSE VClip(o)
ClipWeight(w) == IF delta = NoDelta THEN w ELSE Clip(w, Zero, One)

VFits(o) == \A t \in Topics : Fits(o[t])

\* if-branch of update(): one interaction on a sampled edge
VectorInteract ==
    /\ variant = "vector" /\ pc = "idle" /\ step < MaxStep
    /\ \E e \in Sample2 :
          /\ Contains(weight, e)
          /\ Fits(weight[e]) /\ VFits(opinions[e[1]]) /\ VFits(opinions[e[2]])
          /\ LET w == weight[e]
                 oa == opinions[e[1]]
                 ob == opinions[e[2]]
                 written == ClipWeight(VectorNewWeight(w, oa, ob))
             IN  /\ opinions' = [opinions EXCEPT
                                    ![e[1]] = ClipOpinions(UpdatedA(w, oa, ob)),
                                    ![e[2]] = ClipOpinions(UpdatedB(w, oa, ob))]
                 /\ weight' = IF Weak(written)
                                 THEN RemoveEdge(SetWeight(weight, e, written), e)
                                 ELSE SetWeight(weight, e, written)
                 /\ outcome' = IF Weak(written) THEN "pruned" ELSE "kept"
                 /\ edge' = {e[1], e[2]}
    /\ step' = Increment(step)
    /\ UNCHANGED <<config, opinion, pc, attempt>>

\* if-branch of update() with no edge: rd.choice([]) raises IndexError before
\* anything is written
VectorInteractEmpty ==
    /\ variant = "vector" /\ pc = "idle"
    /\ NoEdges(weight)
    /\ outcome' = "raised"
    /\ edge' = {}
    /\ UNCHANGED <<config, weight, opinion, opinions, step, pc, attempt>>

\* an iteration of `for _ in range(50)` that samples an unconnected pair:
\* add_edge(edge[0], edge[1], weight=normal(.5, .2)), break, self.step += 1
VectorNewEdgeAccept ==
    /\ variant = "vector" /\ pc \in {"idle", "sampling"} /\ step < MaxStep
    /\ attempt < MaxAttempts
    /\ \E e \in Sample2, w \in NormalDraws :
          /\ Unconnected(weight, e)
          /\ weight' = AddEdge(weight, e, w)
          /\ edge' = {e[1], e[2]}
    /\ outcome' = "added"
    /\ pc' = "idle"
    /\ attempt' = 0
    /\ step' = Increment(step)
    /\ UNCHANGED <<config, opinion, opinions>>

\* one iteration too many
ExhaustedMutant(k) == k > MaxAttempts

\* the loop is over once MaxAttempts samples have been drawn
Exhausted(k) == k >= MaxAttempts

\* an iteration that samples a connected pair: next iteration, or, after the
\* last one, fall out of the loop and self.step += 1
VectorNewEdgeReject ==
    /\ variant = "vector" /\ pc \in {"idle", "sampling"} /\ step < MaxStep
    /\ \E e \in Sample2 : ~Unconnected(weight, e)
    /\ IF Exhausted(attempt + 1)
          THEN /\ pc' = "idle"
               /\ attempt' = 0
               /\ step' = Increment(step)
               /\ outcome' = "gaveup"
               /\ edge' = {}
          ELSE /\ pc' = "sampling"
               /\ attempt' = attempt + 1
               /\ UNCHANGED <<step, edge, outcome>>
    /\ UNCHANGED <<config, weight, opinion, opinions>>

\* ----------------------------------------------------------- specification
Init == ScalarInit \/ VectorInit

Next ==
    \/ ScalarInteract
    \/ ScalarInteractEmpty
    \/ ScalarNewEdgeAccept
    \/ ScalarNewEdgeReject
    \/ VectorInteract
    \/ VectorInteractEmpty
    \/ VectorNewEdgeAccept
    \/ VectorNewEdgeReject

Spec == Init /\ [][Next]_vars

\* the scalar variant alone
ScalarNext ==
    \/ ScalarInteract
    \/ ScalarInteractEmpty
    \/ ScalarNewEdgeAccept
    \/ ScalarNewEdgeReject

\* random.sample is fair: a pair that stays unconnected is eventually drawn
ScalarFairSpec ==
    /\ ScalarInit
    /\ [][ScalarNext]_vars
    /\ WF_vars(pc = "sampling" /\ ScalarNewEdgeAccept)

\* The update rules as functions of the graph they are applied to: update()
\* reads whatever opinions and weight the selected edge carries, so the
\* interaction branch is also explored from graphs with one tie between nodes
\* 0 and 1 whose attributes range over a grid of values.
OpinionGrid == {Zero, Rat(1, 4), Rat(1, 2), One}
WeightGrid == {Zero, Rat(1, 20), Rat(1, 2), One}
ArrayGrid == {Zero, Rat(1, 2), One}
ArrayWeightGrid == {Rat(1, 10), Rat(1, 2), Rat(6, 5)}

ScalarAnyInit ==
    /\ variant = "scalar"
    /\ \E c \in ScalarCoefficients : alpha = c.a /\ beta = c.b /\ gamma = c.g
    /\ delta = NoDelta
    /\ \E w \in WeightGrid :
          weight = [e \in Nodes \X Nodes |-> IF e \in OnePair THEN w ELSE NoEdge]
    /\ \E oi, oj \in OpinionGrid :
          opinion = [n \in Nodes |-> IF n = 0 THEN oi ELSE IF n = 1 THEN oj ELSE Zero]
    /\ opinions = [n \in Nodes |-> <<>>]
    /\ step = 0
    /\ pc = "idle"
    /\ attempt = 0
    /\ edge = {}
    /\ outcome = "none"

VectorAnyInit ==
    /\ variant = "vector"
    /\ \E c \in Coefficients : alpha = c.a /\ beta = c.b /\ gamma = c.g
    /\ delta \in Deltas
    /\ \E w \in ArrayWeightGrid :
          weight = [e \in Nodes \X Nodes |-> IF e \in OnePair THEN w ELSE NoEdge]
    /\ \E oa, ob \in [Topics -> ArrayGrid] :
          opinions = [n \in Nodes |-> IF n = 0 THEN oa ELSE IF n = 1 THEN ob
                                      ELSE [t \in Topics |-> Zero]]
    /\ opinion = [n \in Nodes |-> Zero]
    /\ step = 0
    /\ pc = "idle"
    /\ attempt = 0
    /\ edge = {}
    /\ outcome = "none"

\* the interaction branch of both classes
InteractNext ==
    \/ ScalarInteract
    \/ ScalarInteractEmpty
    \/ VectorInteract
    \/ VectorInteractEmpty

InteractSpec == (ScalarAnyInit \/ VectorAnyInit) /\ [][InteractNext]_vars

\* ------------------------------------------------------------------ claims
\* which branch a call that has just returned took (a step that leaves
\* pc' = "idle" is the end of a call)
Interacted == pc' = "idle" /\ outcome' \in {"kept", "pruned"}
Added == pc' = "idle" /\ outcome' = "added"
GaveUp == pc' = "idle" /\ outcome' = "gaveup"

\* the selected edge as an ordered pair (either orientation)
PairOf(s) == CHOOSE e \in Nodes \X Nodes : {e[1], e[2]} = s

\* the weight an interaction on e writes, from the state before it
Written(e) ==
    IF variant = "scalar"
        THEN ScalarNewWeight(weight[e], opinion[e[1]], opinion[e[2]])
        ELSE ClipWeight(VectorNewWeight(weight[e], opinions[e[1]], opinions[e[2]]))

\* C1: in both variants an interaction removes the selected edge if and only
\* if the weight it wrote is strictly below 0.05: below it the edge is gone
\* after the step, at or above it (exactly 0.05 included) the edge is still
\* there and carries the written weight.
C1_PrunedIffBelowThreshold ==
    [][Interacted =>
          LET e == PairOf(edge')
              r == <<e[2], e[1]>>
              below == Num(Written(e)) * 20 < Den(Written(e))
          IN  /\ Contains(weight, e)
              /\ below => weight'[e] = NoEdge /\ weight'[r] = NoEdge
              /\ ~below => weight'[e] = Written(e) /\ weight'[r] = Written(e)
              /\ below <=> outcome' = "pruned"]_vars

\* an interaction has just left its edge in the graph with weight exactly 0.05
C1_Witness ==
    /\ outcome = "kept"
    /\ weight[PairOf(edge)] = <<1, 20>>

\* the graph is simple: no self-loop, and both orientations of a pair agree
SimpleGraph ==
    /\ \A n \in Nodes : weight[n, n] = NoEdge
    /\ \A u, v \in Nodes : weight[u, v] = weight[v, u]

\* C2: in both variants every reachable graph is simple, and the new-edge
\* branch only adds an edge between two distinct nodes that were unconnected
\* in both orientations before the step, leaving every other pair as it was.
C2_NewEdgeKeepsGraphSimple ==
    /\ []SimpleGraph
    /\ [][Added =>
             LET e == PairOf(edge')
                 r == <<e[2], e[1]>>
             IN  /\ e[1] # e[2]
                 /\ weight[e] = NoEdge /\ weight[r] = NoEdge
                 /\ weight'[e] # NoEdge
                 /\ \A p \in (Nodes \X Nodes) \ {e, r} : weight'[p] = weight[p]]_vars

\* the new-edge branch has just added an edge to a graph that already had one
C2_Witness ==
    /\ outcome = "added"
    /\ Cardinality(edge) = 2
    /\ \E p \in Sample2 : {p[1], p[2]} # edge /\ Contains(weight, p)

\* C3: in the vector variant the weight an interaction writes is the old
\* weight plus beta*w*(1-w)*(1 - gamma*mean|o_i - o_j|) taken on the opinion
\* vectors the endpoints held before this interaction's opinion update
\* (clipped when delta is set).
C3_WeightDeltaFromSnapshot ==
    [][Interacted /\ variant = "vector" /\ outcome' = "kept" =>
          LET e == PairOf(edge')
              w == weight[e]
          IN  weight'[e] =
                 ClipWeight(Add(w, DeltaW(w, opinions[e[1]], opinions[e[2]])))]_vars

\* the update rule of the notebook text (lines 125, 132), on given values
ClaimedOpinion(own, other, w) == Add(own, Mul(alpha, Mul(w, Sub(other, own))))
ClaimedWeight(w, oi, oj) ==
    Add(w, Mul(beta, Mul(Mul(w, Sub(One, w)),
                         Sub(One, Mul(gamma, Abs(Sub(oi, oj)))))))

\* C4: in the scalar variant an interaction on edge (i, j) writes
\* o_i' = o_i + alpha*w*(o_j - o_i), o_j' = o_j + alpha*w*(o_i - o_j) and
\* w' = w + beta*w*(1-w)*(1 - gamma*|o_i - o_j|), all from the values before
\* the step, and the outcome is the same for either orientation of the edge
\* and either order of the two node writes.
C4_ScalarRuleFromSnapshot ==
    [][Interacted /\ variant = "scalar" =>
          LET e == PairOf(edge')
              r == <<e[2], e[1]>>
              w == weight[e]
              oi == opinion[e[1]]
              oj == opinion[e[2]]
              cw == ClaimedWeight(w, oi, oj)
          IN  /\ opinion'[e[1]] = ClaimedOpinion(oi, oj, w)
              /\ opinion'[e[2]] = ClaimedOpinion(oj, oi, w)
              /\ outcome' = "kept" => weight'[e] = cw
              /\ outcome' = "pruned" => Num(cw) * 20 < Den(cw)
              /\ ScalarOpinionLoop(opinion, e, w) = ScalarOpinionLoop(opinion, r, w)
              /\ ScalarNewWeight(w, oi, oj) = ScalarNewWeight(w, oj, oi)]_vars

\* a scalar interaction between two nodes of different opinion has just run
C4_Witness ==
    /\ variant = "scalar"
    /\ outcome = "kept"
    /\ opinion[PairOf(edge)[1]] # opinion[PairOf(edge)[2]]


\* every opinion component and every weight in the graph lies in [0, 1]
InRange ==
    /\ \A n \in Nodes : \A t \in DOMAIN opinions[n] : InUnit(opinions[n][t])
    /\ \A e \in Sample2 : Contains(weight, e) => InUnit(weight[e])

\* C5: in the vector variant with delta set, a step taken from a graph whose
\* opinions and weights lie in [0, 1] leaves them in [0, 1], whichever branch
\* it takes, new edges included.
C5_UnitRangeKept ==
    [][variant = "vector" /\ delta # NoDelta /\ InRange => InRange']_vars

\* C6: in both variants every update() that returns adds exactly 1 to the step
\* counter, whether it kept the edge, pruned it, added an edge or gave up
\* after 50 attempts; a call that has not returned leaves the counter alone,
\* and the counter never decreases.
C6_StepCountsCalls ==
    [][/\ (pc' = "idle" /\ outcome' \in {"kept", "pruned", "added", "gaveup"})
             => step' = step + 1
       /\ (pc' = "sampling" \/ outcome' = "raised") => step' = step
       /\ step' >= step]_vars

\* the vector variant has returned from a call that gave up adding an edge
C6_Witness ==
    /\ outcome = "gaveup"
    /\ pc = "idle"
    /\ step > 0


\* C7: in both variants one update() makes one kind of change.  Adding an
\* edge changes one unconnected pair and no opinion; an interaction changes
\* only the two endpoints' opinions and the selected edge, and adds no edge;
\* giving up and a rejected sample change nothing; the node set is fixed.
C7_OneMutationPerStep ==
    [][LET e == PairOf(edge')
           r == <<e[2], e[1]>>
           others == (Nodes \X Nodes) \ {e, r}
       IN  /\ Added =>
                /\ opinion' = opinion /\ opinions' = opinions
                /\ \A p \in others : weight'[p] = weight[p]
                /\ weight[e] = NoEdge /\ weight'[e] # NoEdge
           /\ Interacted =>
                /\ \A n \in Nodes \ edge' :
                      opinion'[n] = opinion[n] /\ opinions'[n] = opinions[n]
                /\ \A p \in others : weight'[p] = weight[p]
                /\ \A p \in Nodes \X Nodes : weight[p] = NoEdge => weight'[p] = NoEdge
           /\ (GaveUp \/ pc' = "sampling" \/ outcome' = "raised") =>
                weight' = weight /\ opinion' = opinion /\ opinions' = opinions
           /\ DOMAIN opinion' = Nodes /\ DOMAIN opinions' = Nodes
           /\ DOMAIN weight' = Nodes \X Nodes]_vars

\* an interaction has just pruned its edge while other edges remain
C7_Witness ==
    /\ outcome = "pruned"
    /\ \E p \in Sample2 : Contains(weight, p)


\* C8: in the vector variant, when the graph is complete the new-edge branch
\* draws at most 50 samples, accepts none of them, and returns after the 50th
\* with the edges, their weights and all opinions as they were.
C8_CompleteGraphGivesUp ==
    /\ [](attempt < 50)
    /\ [][variant = "vector" /\ Complete(weight) =>
             /\ ~Added
             /\ pc' = "sampling" =>
                   /\ attempt' = attempt + 1
                   /\ weight' = weight /\ opinions' = opinions /\ step' = step
             /\ GaveUp =>
                   /\ attempt = 49 /\ pc' = "idle"
                   /\ weight' = weight /\ opinions' = opinions]_vars
    /\ [][GaveUp => variant = "vector" /\ attempt = 49 /\ weight' = weight]_vars

\* the vector variant has given up on a complete graph
C8_Witness ==
    /\ variant = "vector"
    /\ outcome = "gaveup"
    /\ Complete(weight)


\* C9: in the scalar variant, with fair sampling, the rejection loop entered
\* on a graph with an unconnected pair ends, and the step ends with exactly
\* one new edge of weight 0.5; on a complete graph the loop is never left.
C9_ScalarLoopEndsUnlessComplete ==
    /\ (pc = "sampling" /\ ~Complete(weight)) ~> (pc = "idle" /\ outcome = "added")
    /\ [][Added =>
             LET e == PairOf(edge')
                 r == <<e[2], e[1]>>
             IN  /\ weight[e] = NoEdge /\ weight'[e] = <<1, 2>> /\ weight'[r] = <<1, 2>>
                 /\ \A p \in (Nodes \X Nodes) \ {e, r} : weight'[p] = weight[p]]_vars
    /\ [][pc = "sampling" /\ Complete(weight) => pc' = "sampling"]_vars
    /\ [](pc = "sampling" /\ step < MaxStep => (Complete(weight) <=> ~ENABLED ScalarNewEdgeAccept))

\* the scalar loop has rejected a sample on a graph that has a free pair
C9_Witness ==
    /\ variant = "scalar"
    /\ pc = "sampling"
    /\ ~Complete(weight)


RECURSIVE TotalTo(_, _)
TotalTo(op, n) == IF n < 0 THEN Zero ELSE Add(TotalTo(op, n - 1), op[n])

\* the sum of all node opinions
Total(op) == TotalTo(op, NumNodes - 1)

\* C10: in the scalar variant every interaction keeps the sum of the two
\* endpoint opinions, and the sum of all node opinions is the same after
\* every step.
C10_OpinionSumConserved ==
    [][variant = "scalar" =>
          /\ Total(opinion') = Total(opinion)
          /\ Interacted =>
                LET e == PairOf(edge')
                IN  Add(opinion'[e[1]], opinion'[e[2]]) =
                       Add(opinion[e[1]], opinion[e[2]])]_vars

\* a scalar interaction has moved an opinion off its initial 0 or 1
C10_Witness ==
    /\ variant = "scalar"
    /\ outcome \in {"kept", "pruned"}
    /\ \E n \in edge : opinion[n] \notin {Zero, One}

\* C11: in the scalar variant with gamma <= 1, an interaction whose endpoint
\* opinions and edge weight lie in [0, 1] before the step writes a weight that
\* is at least the weight before it: a kept edge carries a weight >= the old
\* one, and an edge is pruned only if its old weight was already below 0.05.
C11_WeightNonDecreasing ==
    [][Interacted /\ variant = "scalar" /\ Leq(gamma, One) =>
          LET e == PairOf(edge')
              w == weight[e]
              oi == opinion[e[1]]
              oj == opinion[e[2]]
          IN  (InUnit(w) /\ InUnit(oi) /\ InUnit(oj)) =>
                 /\ outcome' = "kept" => Leq(w, weight'[e])
                 /\ outcome' = "pruned" => Less(w, <<1, 20>>)
                 /\ Leq(w, ClaimedWeight(w, oi, oj))]_vars

\* with gamma <= 1 an interaction between two nodes of different opinion has
\* just raised the weight of its edge
C11_Witness ==
    /\ variant = "scalar"
    /\ Leq(gamma, One)
    /\ outcome = "kept"
    /\ opinion[PairOf(edge)[1]] # opinion[PairOf(edge)[2]]
    /\ Less(Half, weight[PairOf(edge)]) /\ Less(weight[PairOf(edge)], One)

\* C12: in both variants a call that takes the interaction branch while the
\* graph has no edge cannot return normally; it raises, and the raising call
\* leaves every opinion, the (empty) edge set and the step counter as they
\* were.  A call raises this way only on a graph without edges.
C12_EmptyGraphRaisesBeforeMutation ==
    /\ [][(pc = "idle" /\ \A p \in Nodes \X Nodes : weight[p] = NoEdge) =>
             /\ ~Interacted
             /\ outcome' = "raised" =>
                   /\ weight' = weight
                   /\ opinion' = opinion /\ opinions' = opinions
                   /\ step' = step
                   /\ pc' = "idle"]_vars
    /\ [](outcome = "raised" => \A p \in Nodes \X Nodes : weight[p] = NoEdge)
    /\ []((pc = "idle" /\ \A p \in Nodes \X Nodes : weight[p] = NoEdge) =>
             ENABLED (outcome' = "raised" /\ (ScalarInteractEmpty \/ VectorInteractEmpty)))

\* a call has raised on a graph whose last edge an earlier call had pruned
C12_Witness ==
    /\ outcome = "raised"
    /\ step > 0
    /\ \A p \in Nodes \X Nodes : weight[p] = NoEdge

\* the unscaled opinion change alpha*w*(o_other - o_self) and the multiplier
\* delta*max(0.05, min(o_self, |o_self - 1|)) on given values
ClaimedChange(own, other, w) == Mul(alpha, Mul(w, Sub(other, own)))
ClaimedMultiplier(own) ==
    LET gap == Abs(Sub(own, One))
        least == IF Less(gap, own) THEN gap ELSE own
    IN  Mul(delta, IF Less(least, <<1, 20>>) THEN <<1, 20>> ELSE least)

\* C13: in the vector variant an interaction moves each endpoint, in each
\* topic, by alpha*w*(o_other - o_self) taken on the opinions before the step,
\* times delta*max(0.05, min(o_self, |o_self - 1|)) of that endpoint's own
\* opinion before the step when delta is set (the result then clipped into
\* [0, 1]), and times exactly 1 when delta is absent, with the result left
\* unclipped; with delta absent the weight is written unclipped as well.
C13_FlexibilityMultiplier ==
    [][Interacted /\ variant = "vector" =>
          LET e == PairOf(edge')
              w == weight[e]
              Moved(own, other) ==
                  IF delta = NoDelta
                      THEN Add(own, ClaimedChange(own, other, w))
                      ELSE LET to == Add(own, Mul(ClaimedChange(own, other, w),
                                                  ClaimedMultiplier(own)))
                           IN  IF Less(to, Zero) THEN Zero
                               ELSE IF Less(One, to) THEN One ELSE to
              gap == SumTo([t \in Topics |->
                               Abs(Sub(opinions'[e[1]][t], opinions'[e[2]][t]))],
                           n_topics)
              unclipped ==
                  Add(w, Mul(beta, Mul(Mul(w, Sub(One, w)),
                                       Sub(One, Mul(gamma, Mul(gap, Rat(1, n_topics)))))))
          IN  /\ \A t \in Topics :
                    /\ opinions'[e[1]][t] = Moved(opinions[e[1]][t], opinions[e[2]][t])
                    /\ opinions'[e[2]][t] = Moved(opinions[e[2]][t], opinions[e[1]][t])
              /\ (delta = NoDelta /\ outcome' = "kept") => weight'[e] = unclipped]_vars

\* with delta set, an endpoint that held 1/2 in some topic has just been moved
\* towards a neighbour holding 1 by alpha*w*(1/2) * delta*(1/2) = 3/16
C13_Witness ==
    /\ variant = "vector"
    /\ delta # NoDelta
    /\ outcome \in {"kept", "pruned"}
    /\ \E n \in edge : \E t \in Topics : opinions[n][t] = <<11, 16>>

\* with delta absent an interaction has just left a weight above 1 in the graph
C13_UnclippedWitness ==
    /\ variant = "vector"
    /\ delta = NoDelta
    /\ outcome = "kept"
    /\ Less(One, weight[PairOf(edge)])

\* C14: in the scalar variant with alpha in (0, 0.5] and the edge weight in
\* [0, 1] before the step, an interaction leaves the endpoints at distance
\* (1 - 2*alpha*w) times their distance before it, which is no larger, and
\* keeps their order: the endpoint that was not above the other is not above
\* it afterwards.
C14_DistanceContracts ==
    [][Interacted /\ variant = "scalar" =>
          LET e == PairOf(edge')
              w == weight[e]
              oi == opinion[e[1]]
              oj == opinion[e[2]]
              before == Abs(Sub(oi, oj))
              after == Abs(Sub(opinion'[e[1]], opinion'[e[2]]))
          IN  (Less(Zero, alpha) /\ Leq(alpha, <<1, 2>>) /\ InUnit(w)) =>
                 /\ after = Mul(Sub(One, Mul(<<2, 1>>, Mul(alpha, w))), before)
                 /\ Leq(after, before)
                 /\ Leq(oi, oj) => Leq(opinion'[e[1]], opinion'[e[2]])
                 /\ Leq(oj, oi) => Leq(opinion'[e[2]], opinion'[e[1]])]_vars

\* a scalar interaction has just moved two nodes closer without making them
\* meet
C14_Witness ==
    /\ variant = "scalar"
    /\ outcome \in {"kept", "pruned"}
    /\ opinion[PairOf(edge)[1]] # opinion[PairOf(edge)[2]]
    /\ \A n \in edge : opinion[n] \notin {Zero, One}
    /\ \E n \in edge : opinion[n] \notin OpinionGrid

\* a scalar interaction with alpha*w = 1/2 has just made two nodes that
\* differed meet
C14_MeetWitness ==
    /\ variant = "scalar"
    /\ outcome = "kept"
    /\ alpha = <<1, 2>> /\ step = 1
    /\ opinion[0] = opinion[1] /\ opinion[0] \in {<<1, 8>>, <<5, 8>>}

\* the coefficients lie in the ranges of the notebook text:
\* alpha in (0, 0.5], beta in (0, 1), gamma > 0
CoefficientsInRange ==
    /\ Less(Zero, alpha) /\ Leq(alpha, <<1, 2>>)
    /\ Less(Zero, beta) /\ Less(beta, One)
    /\ Less(Zero, gamma)

\* every scalar opinion in [0, 1] and every edge weight in [0.05, 1]
ScalarInRange ==
    /\ \A n \in Nodes : Leq(Zero, opinion[n]) /\ Leq(opinion[n], One)
    /\ \A e \in Nodes \X Nodes :
          weight[e] # NoEdge => Leq(<<1, 20>>, weight[e]) /\ Leq(weight[e], One)

\* C15: in the scalar variant with alpha in (0, 0.5], beta in (0, 1) and
\* gamma > 0, every state reached from initialize() has every node opinion in
\* [0, 1] and every edge of the graph at a weight in [0.05, 1]; no edge below
\* the 0.05 threshold is ever in the graph between calls.
C15_ScalarRangeReachable ==
    (variant = "scalar" /\ CoefficientsInRange) => ScalarInRange

\* the scalar variant has just written a weight below 0.05 and removed that
\* edge, with other edges still in the graph
C15_Witness ==
    /\ variant = "scalar"
    /\ outcome = "pruned"
    /\ \E p \in Sample2 : Contains(weight, p)
    /\ \E n \in edge : opinion[n] \notin {Zero, One}

\* the step of C15 from any graph in range: a scalar call made on opinions in
\* [0, 1] and weights in [0.05, 1] leaves them there
C15_StepKeepsRange ==
    [][(variant = "scalar" /\ CoefficientsInRange /\ ScalarInRange)
          => ScalarInRange']_vars

\* the connected ordered pairs of a graph
EdgeSet(wt) == {p \in Nodes \X Nodes : wt[p] # NoEdge}

\* C16: in the scalar variant with gamma <= 1 (alpha, beta and gamma in the
\* ranges of the notebook text), started from initialize(), no step removes an
\* edge: every edge before a step is an edge after it, the number of edges
\* does not decrease, and no call ends by pruning.
C16_NoEdgeRemoved ==
    /\ [][(variant = "scalar" /\ CoefficientsInRange /\ Leq(gamma, One)) =>
             /\ EdgeSet(weight) \subseteq EdgeSet(weight')
             /\ Cardinality(EdgeSet(weight')) >= Cardinality(EdgeSet(weight))]_vars
    /\ []((variant = "scalar" /\ CoefficientsInRange /\ Leq(gamma, One)) =>
             outcome # "pruned")

\* with gamma = 1 two nodes holding 0 and 1 have just interacted: the weight
\* increment was exactly 0 and the edge is still in the graph at 0.5
C16_Witness ==
    /\ variant = "scalar"
    /\ gamma = One
    /\ outcome = "kept"
    /\ weight[PairOf(edge)] = <<1, 2>>
    /\ {opinion[n] : n \in edge} = {<<1, 4>>, <<3, 4>>}


====
